---- MODULE Spec2Model ----
(***************************************************************************)
(* Credit-curve and CDS valuation engine (src/new): ZeroCurve,             *)
(* HazardRateCurve, CDSCashflowSchedule, build_cds_premium_df and the      *)
(* queries made on them.                                                   *)
(*                                                                         *)
(* Numbers.  Python floats are modelled by exact values:                   *)
(*   - a rational is a pair <<n, d>> in lowest terms with d > 0;           *)
(*   - a positive real built from powers, such as (1 + r)^(-t) or          *)
(*     exp(-x), is a "power product": a set of <<base, exponent>> pairs    *)
(*     with distinct bases, no exponent 0 and no base 1; the empty         *)
(*     product is the float 1.0;                                           *)
(*   - a sum of such values, such as a present value, is a set of          *)
(*     <<power product, coefficient>> terms with distinct power products   *)
(*     and no coefficient 0; the empty sum is the float 0.0.               *)
(* Floating-point rounding is not modelled.                                *)
(* Dates are proleptic Gregorian ordinals, as datetime.date.toordinal().   *)
(***************************************************************************)
EXTENDS Integers, Sequences, FiniteSets, TLC

\* valuation_date: the valuation date both curves are constructed with
\* zero_csv, hazard_csv: the rows of the two CSV files the curves load from
\* pillars: ZeroCurve._pillars, as the items of the dict in its order
\* times, rates: HazardRateCurve._times and _rates
\* sch: the fields of the CDSCashflowSchedule object
\* periods: the caller's schedule list, as generate() returned it or as the
\*          caller wrote it
\* ret: the last call, its arguments and what it returned or raised
VARIABLES valuation_date, zero_csv, hazard_csv, pillars, times, rates,
          sch, periods, ret

vars == <<valuation_date, zero_csv, hazard_csv, pillars, times, rates,
          sch, periods, ret>>

\* what no call on a curve writes
files == <<valuation_date, zero_csv, hazard_csv, sch, periods>>

(***************************************************************************)
(* Bounds of the model                                                     *)
(***************************************************************************)
\* dates range over valuation_date - 1 .. valuation_date + MaxDay
MaxDay == 3
\* a CSV file has at most MaxRows rows
MaxRows == 2
\* hazard rates range over -1% .. MaxRate%
MaxRate == 2
\* the tenor of a schedule ranges over 1 .. MaxTenor days
MaxTenor == 2
\* a schedule list given to build_cds_premium_df has at most MaxPeriods periods
MaxPeriods == 2

(***************************************************************************)
(* Rational arithmetic                                                     *)
(***************************************************************************)
Abs(n) == IF n < 0 THEN -n ELSE n

RECURSIVE GCD(_, _)
GCD(a, b) == IF b = 0 THEN a ELSE GCD(b, a % b)

Norm(n, d) ==
    LET g == GCD(Abs(n), Abs(d))
        s == IF d < 0 THEN -1 ELSE 1
    IN  <<s * (n \div g), s * (d \div g)>>

Rat(n) == <<n, 1>>
Zero == Rat(0)
Unit == Rat(1)

RNeg(x) == <<-x[1], x[2]>>

RAdd(x, y) ==
    LET g == GCD(x[2], y[2])
    IN  Norm(x[1] * (y[2] \div g) + y[1] * (x[2] \div g), (x[2] \div g) * y[2])

RSub(x, y) == RAdd(x, RNeg(y))

RMul(x, y) ==
    LET g1 == GCD(Abs(x[1]), y[2])
        g2 == GCD(Abs(y[1]), x[2])
    IN  IF x[1] = 0 \/ y[1] = 0 THEN Zero
        ELSE <<(x[1] \div g1) * (y[1] \div g2), (x[2] \div g2) * (y[2] \div g1)>>

RInv(x) == IF x[1] < 0 THEN <<-x[2], -x[1]>> ELSE <<x[2], x[1]>>

RDiv(x, y) == RMul(x, RInv(y))

RLess(x, y) ==
    LET g == GCD(x[2], y[2])
    IN  x[1] * (y[2] \div g) < y[1] * (x[2] \div g)

RLeq(x, y) == x = y \/ RLess(x, y)

Half == Norm(1, 2)

(***************************************************************************)
(* Power products: the values of (1 + r) ** (-t), exp(-x) and their        *)
(* quotients.  Euler stands for the base e.                                *)
(***************************************************************************)
Euler == <<1, 0>>

One == {}

Bases(p) == {f[1] : f \in p}

Exponent(p, b) == IF b \in Bases(p) THEN (CHOOSE f \in p : f[1] = b)[2] ELSE Zero

\* b ** e for a float base b > 0: 1.0 when e = 0 or b = 1.0
Pow(b, e) == IF e = Zero \/ b = Unit THEN One ELSE {<<b, e>>}

\* math.exp(x)
Exp(x) == Pow(Euler, x)

\* p / q
PDiv(p, q) ==
    {<<b, RSub(Exponent(p, b), Exponent(q, b))>> :
        b \in {c \in Bases(p) \cup Bases(q) : Exponent(p, c) # Exponent(q, c)}}

\* p ** k
PPow(p, k) == IF k = Zero THEN One ELSE {<<f[1], RMul(f[2], k)>> : f \in p}

\* p * q
PMul(p, q) == PDiv(p, PDiv(One, q))

(***************************************************************************)
(* Sums of power products                                                  *)
(***************************************************************************)
\* c * p
Term(c, p) == IF c = Zero THEN {} ELSE {<<p, c>>}

Products(l) == {t[1] : t \in l}

Coefficient(l, p) == IF p \in Products(l) THEN (CHOOSE t \in l : t[1] = p)[2] ELSE Zero

\* l + k
SAdd(l, k) ==
    {<<p, RAdd(Coefficient(l, p), Coefficient(k, p))>> :
        p \in {q \in Products(l) \cup Products(k) :
                  RAdd(Coefficient(l, q), Coefficient(k, q)) # Zero}}

\* l - k
SSub(l, k) == SAdd(l, {<<t[1], RNeg(t[2])>> : t \in k})

\* c * l
SScale(l, c) == IF c = Zero THEN {} ELSE {<<t[1], RMul(t[2], c)>> : t \in l}

\* l * p
SMul(l, p) == {<<PMul(t[1], p), t[2]>> : t \in l}

(***************************************************************************)
(* Dates                                                                   *)
(***************************************************************************)
IsLeap(y) == y % 4 = 0 /\ (y % 100 # 0 \/ y % 400 = 0)

DaysBeforeYear(y) ==
    (y - 1) * 365 + ((y - 1) \div 4) - ((y - 1) \div 100) + ((y - 1) \div 400)

DaysInMonth(y, m) ==
    IF m = 2 THEN (IF IsLeap(y) THEN 29 ELSE 28)
    ELSE IF m \in {4, 6, 9, 11} THEN 30 ELSE 31

RECURSIVE DaysBeforeMonth(_, _)
DaysBeforeMonth(y, m) ==
    IF m = 1 THEN 0 ELSE DaysBeforeMonth(y, m - 1) + DaysInMonth(y, m - 1)

\* date(y, m, d), as its ordinal
Date(y, m, d) == DaysBeforeYear(y) + DaysBeforeMonth(y, m) + d

\* val = date(2025, 7, 28)
ScenarioVal == Date(2025, 7, 28)

\* date(2028, 3, 15)
ScenarioEnd == Date(2028, 3, 15)

\* faulty variant: ACT/360
year_fraction_360(start, end) == Norm(end - start, 360)

\* year_fraction(start, end): ACT/365F
year_fraction(start, end) == Norm(end - start, 365)

(***************************************************************************)
(* CSV files.  A row is the outcome of reading one line: how many cells    *)
(* it has, whether its first cell parses as a date (and to which), whether *)
(* its second cell parses as a float (and to which).                       *)
(***************************************************************************)
Row(d, r) == [cells |-> 2, date_ok |-> TRUE, date |-> d, rate_ok |-> TRUE, rate |-> r]

\* a line with one cell, a header line, a line whose rate is not a number
Malformed(d, r) ==
    { [cells |-> 1, date_ok |-> TRUE,  date |-> d, rate_ok |-> TRUE,  rate |-> r],
      [cells |-> 2, date_ok |-> FALSE, date |-> d, rate_ok |-> FALSE, rate |-> r],
      [cells |-> 2, date_ok |-> TRUE,  date |-> d, rate_ok |-> FALSE, rate |-> r] }

SeqsUpTo(S, n) == UNION {[1..k -> S] : k \in 0..n}

\* faulty variant: a row whose rate does not parse is kept
ParsedWithoutRate(row) == row.cells >= 2 /\ row.date_ok

\* the rows a load loop reaches its last statement with
Parsed(row) == row.cells >= 2 /\ row.date_ok /\ row.rate_ok

ParsedRows(file) == SelectSeq(file, Parsed)

NoValue == [kind |-> "none"]
Float(p) == [kind |-> "float", pp |-> p]

Returned(op, file, a, b, v) ==
    [op |-> op, file |-> file, a |-> a, b |-> b, status |-> "ok", value |-> v]

Raised(op, file, a, b, exc) ==
    [op |-> op, file |-> file, a |-> a, b |-> b, status |-> exc, value |-> NoValue]

(***************************************************************************)
(* ZeroCurve                                                               *)
(***************************************************************************)
\* dict: a sequence of <<key, value>> items in insertion order
Keys(dict) == {dict[i][1] : i \in DOMAIN dict}

Get(dict, k) == dict[CHOOSE i \in DOMAIN dict : dict[i][1] = k][2]

\* dict[k] = v
SetItem(dict, k, v) ==
    IF k \in Keys(dict)
    THEN [i \in DOMAIN dict |-> IF dict[i][1] = k THEN <<k, v>> ELSE dict[i]]
    ELSE Append(dict, <<k, v>>)

\* sorted(items) for items with distinct first components
RECURSIVE Sorted(_)
Sorted(items) ==
    IF items = <<>> THEN <<>>
    ELSE LET m == CHOOSE i \in DOMAIN items :
                      \A j \in DOMAIN items : items[i][1] <= items[j][1]
             rest == [j \in 1..(Len(items) - 1) |->
                          IF j < m THEN items[j] ELSE items[j + 1]]
         IN  <<items[m]>> \o Sorted(rest)

\* faulty variant: a row dated on the valuation date is discarded
ZeroStepStrictlyAfter(rows, row, val) ==
    IF row.cells < 2 THEN rows
    ELSE IF ~row.date_ok THEN rows
    ELSE IF ~row.rate_ok THEN rows
    ELSE IF row.date > val THEN SetItem(rows, row.date, row.rate)
    ELSE rows

\* one pass of the loop of ZeroCurve.load_from_csv over a line of the file
ZeroStep(rows, row, val) ==
    IF row.cells < 2 THEN rows
    ELSE IF ~row.date_ok THEN rows
    ELSE IF ~row.rate_ok THEN rows
    ELSE IF row.date >= val THEN SetItem(rows, row.date, row.rate)
    ELSE rows

\* the loop of ZeroCurve.load_from_csv: the dict rows after the file is read
RECURSIVE ZeroRows(_, _)
ZeroRows(file, val) ==
    IF file = <<>> THEN <<>>
    ELSE ZeroStep(ZeroRows(SubSeq(file, 1, Len(file) - 1), val), file[Len(file)], val)

ZeroPillars(file, val) == Sorted(ZeroRows(file, val))

\* faulty variant: the pillars of the file are added to those already loaded
ZeroLoadMerging ==
    LET rows == ZeroRows(zero_csv, valuation_date)
        old == SelectSeq(pillars, LAMBDA item : item[1] \notin Keys(rows))
    IN  /\ IF rows = <<>>
           THEN /\ ret' = Raised("ZeroCurve.load_from_csv", zero_csv, 0, 0, "ValueError")
                /\ UNCHANGED pillars
           ELSE /\ pillars' = Sorted(old \o rows)
                /\ ret' = Returned("ZeroCurve.load_from_csv", zero_csv, 0, 0, NoValue)
        /\ UNCHANGED <<files, times, rates>>

\* ZeroCurve.load_from_csv
ZeroLoad ==
    LET rows == ZeroRows(zero_csv, valuation_date)
    IN  /\ IF rows = <<>>
           THEN /\ ret' = Raised("ZeroCurve.load_from_csv", zero_csv, 0, 0, "ValueError")
                /\ UNCHANGED pillars
           ELSE /\ pillars' = ZeroPillars(zero_csv, valuation_date)
                /\ ret' = Returned("ZeroCurve.load_from_csv", zero_csv, 0, 0, NoValue)
        /\ UNCHANGED <<files, times, rates>>

\* D(t) = (1 + r_NA) ** (-t) at the pillar d
PillarDiscount(P, val, d) == Pow(RAdd(Unit, Get(P, d)), RNeg(year_fraction(val, d)))

\* faulty variant: the pillar check comes before the equal-dates shortcut
discount_factor_pillars_first(P, val, d_from, d_to) ==
    IF d_from \notin Keys(P) \/ d_to \notin Keys(P) THEN <<"KeyError", NoValue>>
    ELSE IF d_from = d_to THEN <<"ok", Float(One)>>
    ELSE <<"ok", Float(PDiv(PillarDiscount(P, val, d_to), PillarDiscount(P, val, d_from)))>>

\* faulty variant: the valuation date is usable as d_from without being a pillar
discount_factor_from_valuation(P, val, d_from, d_to) ==
    IF d_from = d_to THEN <<"ok", Float(One)>>
    ELSE IF d_from = val /\ d_from \notin Keys(P) /\ d_to \in Keys(P)
         THEN <<"ok", Float(PillarDiscount(P, val, d_to))>>
    ELSE IF d_from \notin Keys(P) \/ d_to \notin Keys(P) THEN <<"KeyError", NoValue>>
    ELSE <<"ok", Float(PDiv(PillarDiscount(P, val, d_to), PillarDiscount(P, val, d_from)))>>

\* faulty variant: both factors are taken at the rate of d_from
discount_factor_rate_of_from(P, val, d_from, d_to) ==
    IF d_from = d_to THEN <<"ok", Float(One)>>
    ELSE IF d_from \notin Keys(P) \/ d_to \notin Keys(P) THEN <<"KeyError", NoValue>>
    ELSE LET DA == PillarDiscount(P, val, d_from)
             DB == Pow(RAdd(Unit, Get(P, d_from)), RNeg(year_fraction(val, d_to)))
         IN  <<"ok", Float(PDiv(DB, DA))>>

\* ZeroCurve.discount_factor: <<status, value>>
discount_factor(P, val, d_from, d_to) ==
    IF d_from = d_to THEN <<"ok", Float(One)>>
    ELSE IF d_from \notin Keys(P) \/ d_to \notin Keys(P) THEN <<"KeyError", NoValue>>
    ELSE LET DA == PillarDiscount(P, val, d_from)
             DB == PillarDiscount(P, val, d_to)
         IN  <<"ok", Float(PDiv(DB, DA))>>

\* faulty variant: equal dates pass the interval check and the division by zero raises
forward_rate_cont_equal_passes(P, val, d_start, d_end) ==
    IF d_start \notin Keys(P) \/ d_end \notin Keys(P) THEN <<"KeyError", NoValue>>
    ELSE LET t0 == year_fraction(val, d_start)
             t1 == year_fraction(val, d_end)
         IN  IF RLess(t1, t0) THEN <<"ValueError", NoValue>>
             ELSE IF t1 = t0 THEN <<"ZeroDivisionError", NoValue>>
             ELSE LET df == discount_factor(P, val, d_start, d_end)[2].pp
                  IN  <<"ok", [kind |-> "log",
                               terms |-> PPow(df, RDiv(Rat(-1), RSub(t1, t0)))]>>

\* ZeroCurve.forward_rate_cont: -math.log(df) / (t1 - t0), the logarithm of a
\* power product being the sum of exponent * log(base)
forward_rate_cont(P, val, d_start, d_end) ==
    IF d_start \notin Keys(P) \/ d_end \notin Keys(P) THEN <<"KeyError", NoValue>>
    ELSE LET t0 == year_fraction(val, d_start)
             t1 == year_fraction(val, d_end)
         IN  IF RLeq(t1, t0) THEN <<"ValueError", NoValue>>
             ELSE LET df == discount_factor(P, val, d_start, d_end)[2].pp
                  IN  <<"ok", [kind |-> "log",
                               terms |-> PPow(df, RDiv(Rat(-1), RSub(t1, t0)))]>>

\* ZeroCurve.forward_rate_naca: df ** (-1.0 / delta) - 1.0
forward_rate_naca(P, val, d_start, d_end) ==
    IF d_start \notin Keys(P) \/ d_end \notin Keys(P) THEN <<"KeyError", NoValue>>
    ELSE LET t0 == year_fraction(val, d_start)
             t1 == year_fraction(val, d_end)
         IN  IF RLeq(t1, t0) THEN <<"ValueError", NoValue>>
             ELSE LET df    == discount_factor(P, val, d_start, d_end)[2].pp
                      delta == RSub(t1, t0)
                  IN  <<"ok", [kind |-> "minus_one",
                               pp |-> PPow(df, RDiv(Rat(-1), delta))]>>

Outcome(op, a, b, res) ==
    [op |-> op, file |-> <<>>, a |-> a, b |-> b, status |-> res[1], value |-> res[2]]

DiscountFactor(d_from, d_to) ==
    /\ ret' = Outcome("discount_factor", d_from, d_to,
                      discount_factor(pillars, valuation_date, d_from, d_to))
    /\ UNCHANGED <<files, pillars, times, rates>>

ForwardRateCont(d_start, d_end) ==
    /\ ret' = Outcome("forward_rate_cont", d_start, d_end,
                      forward_rate_cont(pillars, valuation_date, d_start, d_end))
    /\ UNCHANGED <<files, pillars, times, rates>>

ForwardRateNaca(d_start, d_end) ==
    /\ ret' = Outcome("forward_rate_naca", d_start, d_end,
                      forward_rate_naca(pillars, valuation_date, d_start, d_end))
    /\ UNCHANGED <<files, pillars, times, rates>>

(***************************************************************************)
(* HazardRateCurve                                                         *)
(***************************************************************************)
\* the exponent of the duplicate-time tolerance 1e-12
TolExp == 12

\* the time 1e-8 of the knot appended to a one-knot curve
TinyTime == Norm(1, 100000000)

\* n / d < 10 ** (-k), for n >= 0 and d > 0
RECURSIVE BelowPow10(_, _, _)
BelowPow10(n, d, k) == IF k = 0 THEN n < d ELSE BelowPow10(n, (d + 9) \div 10, k - 1)

\* abs(x) < 1e-12
WithinTol(x) == BelowPow10(Abs(x[1]), x[2], TolExp)

Last(s) == s[Len(s)]

\* rows.sort(key=lambda x: x[0]): stable, by date
RECURSIVE SortByDate(_)
SortByDate(rows) ==
    IF rows = <<>> THEN <<>>
    ELSE LET m == CHOOSE i \in DOMAIN rows :
                      /\ \A j \in DOMAIN rows : rows[i].date <= rows[j].date
                      /\ \A j \in 1..(i - 1) : rows[j].date # rows[i].date
             rest == [j \in 1..(Len(rows) - 1) |->
                          IF j < m THEN rows[j] ELSE rows[j + 1]]
         IN  <<rows[m]>> \o SortByDate(rest)

\* faulty variant: a row dated on the valuation date is kept
HazardRowsOnOrAfter(file, val) ==
    LET After(row) == row.date >= val
    IN  SelectSeq(ParsedRows(file), After)

\* the rows of the file that parse and are strictly after the valuation date
HazardRows(file, val) ==
    LET After(row) == row.date > val
    IN  SelectSeq(ParsedRows(file), After)

\* faulty variant: a duplicate time is appended, not replaced
KnotStepAlwaysAppend(acc, row, val) ==
    LET t == year_fraction(val, row.date)
    IN  IF RLeq(t, Zero) THEN acc
        ELSE [times |-> Append(acc.times, t), rates |-> Append(acc.rates, row.rate)]

\* faulty variant: a duplicate time keeps the rate it has
KnotStepKeepsFirst(acc, row, val) ==
    LET t == year_fraction(val, row.date)
    IN  IF RLeq(t, Zero) THEN acc
        ELSE IF acc.times # <<>> /\ WithinTol(RSub(t, Last(acc.times))) THEN acc
        ELSE [times |-> Append(acc.times, t), rates |-> Append(acc.rates, row.rate)]

\* one pass of the loop that builds times and rates, over a sorted row
KnotStep(acc, row, val) ==
    LET t == year_fraction(val, row.date)
        r == row.rate
    IN  IF RLeq(t, Zero) THEN acc
        ELSE IF acc.times # <<>> /\ WithinTol(RSub(t, Last(acc.times)))
             THEN [times |-> acc.times,
                   rates |-> [acc.rates EXCEPT ![Len(acc.rates)] = r]]
             ELSE [times |-> Append(acc.times, t),
                   rates |-> Append(acc.rates, r)]

\* the loop that builds times and rates from the sorted rows, after the
\* synthetic knot at t = 0
RECURSIVE BuildKnots(_, _, _)
BuildKnots(rows, val, first_rate) ==
    IF rows = <<>> THEN [times |-> <<Zero>>, rates |-> <<first_rate>>]
    ELSE KnotStep(BuildKnots(SubSeq(rows, 1, Len(rows) - 1), val, first_rate),
                  rows[Len(rows)], val)

\* the one-point guard
OnePointGuard(k) ==
    IF Len(k.times) < 2
    THEN [times |-> Append(k.times, TinyTime), rates |-> Append(k.rates, k.rates[1])]
    ELSE k

\* times and rates of a successful load (the filtered rows are not empty)
HazardKnots(file, val) ==
    LET rows == SortByDate(HazardRows(file, val))
    IN  OnePointGuard(BuildKnots(rows, val, rows[1].rate))

\* HazardRateCurve.load_from_csv
HazardLoad ==
    /\ IF HazardRows(hazard_csv, valuation_date) = <<>>
       THEN /\ ret' = Raised("HazardRateCurve.load_from_csv", hazard_csv, 0, 0, "ValueError")
            /\ UNCHANGED <<times, rates>>
       ELSE /\ times' = HazardKnots(hazard_csv, valuation_date).times
            /\ rates' = HazardKnots(hazard_csv, valuation_date).rates
            /\ ret' = Returned("HazardRateCurve.load_from_csv", hazard_csv, 0, 0, NoValue)
    /\ UNCHANGED <<files, pillars>>

\* the binary search of _interp_lambda: <<lo, hi>> when the loop ends
RECURSIVE Bisect(_, _, _, _)
Bisect(tm, t, lo, hi) ==
    IF hi - lo > 1
    THEN LET mid == (lo + hi) \div 2
         IN  IF RLeq(tm[mid], t) THEN Bisect(tm, t, mid, hi) ELSE Bisect(tm, t, lo, mid)
    ELSE <<lo, hi>>

\* faulty variant: the weight is applied from the right knot
InterpolateFromRight(tm, rt, t, lo, hi) ==
    LET w == RDiv(RSub(t, tm[lo]), RSub(tm[hi], tm[lo]))
    IN  RAdd(rt[hi], RMul(w, RSub(rt[lo], rt[hi])))

\* the interpolation between the knots lo and hi
Interpolate(tm, rt, t, lo, hi) ==
    LET t0 == tm[lo]
        t1 == tm[hi]
        r0 == rt[lo]
        r1 == rt[hi]
        w  == RDiv(RSub(t, t0), RSub(t1, t0))
    IN  RAdd(r0, RMul(w, RSub(r1, r0)))

\* faulty variant: beyond the last knot the last segment is continued
interp_lambda_linear_beyond(tm, rt, t) ==
    IF RLeq(t, tm[1]) THEN rt[1]
    ELSE IF RLeq(Last(tm), t) THEN Interpolate(tm, rt, t, Len(tm) - 1, Len(tm))
    ELSE LET b == Bisect(tm, t, 1, Len(tm))
         IN  Interpolate(tm, rt, t, b[1], b[2])

\* HazardRateCurve._interp_lambda, for a loaded curve (indices are 1-based)
interp_lambda(tm, rt, t) ==
    IF RLeq(t, tm[1]) THEN rt[1]
    ELSE IF RLeq(Last(tm), t) THEN Last(rt)
    ELSE LET b == Bisect(tm, t, 1, Len(tm))
         IN  Interpolate(tm, rt, t, b[1], b[2])

\* curve._interp_lambda(t); times[0] of a curve that is not loaded raises
InterpLambda(t) ==
    /\ ret' = IF times = <<>>
              THEN Raised("_interp_lambda", <<>>, t, 0, "IndexError")
              ELSE Returned("_interp_lambda", <<>>, t, 0,
                            [kind |-> "rate", q |-> interp_lambda(times, rates, t)])
    /\ UNCHANGED <<files, pillars, times, rates>>

\* list.sort() of floats
RECURSIVE SortFloats(_)
SortFloats(s) ==
    IF s = <<>> THEN <<>>
    ELSE LET m == CHOOSE i \in DOMAIN s : \A j \in DOMAIN s : RLeq(s[i], s[j])
             rest == [j \in 1..(Len(s) - 1) |-> IF j < m THEN s[j] ELSE s[j + 1]]
         IN  <<s[m]>> \o SortFloats(rest)

\* faulty variant: a knot at the horizon itself is taken into the grid
GridUpToHorizon(tm, T) ==
    LET Inside(t) == RLess(Zero, t) /\ RLeq(t, T)
    IN  SortFloats(<<Zero>> \o SelectSeq(Tail(tm), Inside) \o <<T>>)

\* the integration grid of survival_probability, for T > 0
Grid(tm, T) ==
    LET Inside(t) == RLess(Zero, t) /\ RLess(t, T)
    IN  SortFloats(<<Zero>> \o SelectSeq(Tail(tm), Inside) \o <<T>>)

\* faulty variant: the right-endpoint rule
TrapezoidRightEndpoint(lam_prev, lam_curr, dt) == RMul(lam_curr, dt)

\* one pass of the trapezoid loop
Trapezoid(lam_prev, lam_curr, dt) == RMul(RMul(Half, RAdd(lam_prev, lam_curr)), dt)

\* integral after the loop has handled grid[2..i]
RECURSIVE Integrate(_, _, _, _)
Integrate(tm, rt, grid, i) ==
    IF i <= 1 THEN Zero
    ELSE RAdd(Integrate(tm, rt, grid, i - 1),
              Trapezoid(interp_lambda(tm, rt, grid[i - 1]),
                        interp_lambda(tm, rt, grid[i]),
                        RSub(grid[i], grid[i - 1])))

\* the integral survival_probability computes for a horizon T > 0
HazardIntegral(tm, rt, T) == Integrate(tm, rt, Grid(tm, T), Len(Grid(tm, T)))

\* faulty variant: no early return for a horizon on or before the valuation date
survival_probability_no_early_return(tm, rt, val, end_date) ==
    LET T == year_fraction(val, end_date)
    IN  IF tm = <<>> THEN <<"IndexError", NoValue>>
        ELSE <<"ok", Float(Exp(RNeg(HazardIntegral(tm, rt, T))))>>

\* HazardRateCurve.survival_probability: <<status, value>>
survival_probability(tm, rt, val, end_date) ==
    LET T == year_fraction(val, end_date)
    IN  IF RLeq(T, Zero) THEN <<"ok", Float(One)>>
        ELSE IF tm = <<>> THEN <<"IndexError", NoValue>>
        ELSE <<"ok", Float(Exp(RNeg(HazardIntegral(tm, rt, T))))>>

SurvivalProbability(end_date) ==
    /\ ret' = Outcome("survival_probability", end_date, 0,
                      survival_probability(times, rates, valuation_date, end_date))
    /\ UNCHANGED <<files, pillars, times, rates>>

(***************************************************************************)
(* CDSCashflowSchedule (cashflow/utils.py)                                 *)
(*                                                                         *)
(* QuantLib is outside the repository.  Its calendar is modelled from the  *)
(* BusinessCalendar contract: a calendar is the set of its non-business    *)
(* days, and a tenor is a number of days.                                  *)
(***************************************************************************)
Conventions == {"Following", "Preceding", "Unadjusted"}

is_business_day(calendar, d) == d \notin calendar

\* calendar.adjust(d, convention): the nearest business day on or after d
\* (Following), on or before d (Preceding), or d itself (Unadjusted)
adjust(calendar, d, convention) ==
    CASE convention = "Following" ->
             CHOOSE b \in d..(d + Cardinality(calendar)) :
                 /\ is_business_day(calendar, b)
                 /\ \A c \in d..(b - 1) : ~is_business_day(calendar, c)
      [] convention = "Preceding" ->
             CHOOSE b \in (d - Cardinality(calendar))..d :
                 /\ is_business_day(calendar, b)
                 /\ \A c \in (b + 1)..d : ~is_business_day(calendar, c)
      [] OTHER -> d

\* ql.Schedule(start, end, tenor, calendar, Unadjusted, Unadjusted, Forward,
\* False): start, start + tenor, start + 2 tenor, ... while before end, then
\* end; a degenerate interval holds the boundaries that lie in it
Schedule(start_date, end_date, tenor) ==
    IF start_date > end_date THEN <<>>
    ELSE LET n == (end_date - start_date + tenor - 1) \div tenor
         IN  [i \in 1..(n + 1) |->
                 IF i <= n THEN start_date + (i - 1) * tenor ELSE end_date]

\* faulty variant: the boundaries themselves are the payment dates
pay_dates_unadjusted(sched, calendar, payment_convention) ==
    [i \in 1..(Len(sched) - 1) |-> sched[i + 1]]

\* pay_dates: every boundary after the first, adjusted
pay_dates(sched, calendar, payment_convention) ==
    [i \in 1..(Len(sched) - 1) |-> adjust(calendar, sched[i + 1], payment_convention)]

\* faulty variant: every period starts on its unadjusted boundary
starts_on_boundaries(sched, pays) == SubSeq(sched, 1, Len(sched) - 1)

\* faulty variant: a period starts on the day after the payment before it
starts_day_after(sched, pays) ==
    <<sched[1]>> \o [i \in 1..(Len(pays) - 1) |-> pays[i] + 1]

\* starts: the first boundary, then the payment dates but the last
starts(sched, pays) == <<sched[1]>> \o SubSeq(pays, 1, Len(pays) - 1)

\* faulty variant: no period includes its last day
period_plain(i, s, p, last_idx) == <<s, p, Norm(p - s, 365)>>

\* the body of the loop: the period (accrual_start, pay_date, year_fraction),
\* the last one with one day more
period(i, s, p, last_idx) ==
    LET days == IF i = last_idx THEN (p - s) + 1 ELSE p - s
    IN  <<s, p, Norm(days, 365)>>

\* faulty variant: a schedule of two boundaries has no period
generate_needs_three(o) ==
    LET sched == Schedule(o.start_date, o.end_date, o.tenor)
        pays == pay_dates(sched, o.calendar, o.payment_convention)
        begins == starts(sched, pays)
    IN  IF Len(sched) < 3 THEN <<>>
        ELSE [i \in 1..Len(pays) |-> period(i, begins[i], pays[i], Len(pays))]

\* generate(): the indices of the loop are 1 .. len(pay_dates) here
generate(o) ==
    LET sched == Schedule(o.start_date, o.end_date, o.tenor)
        pays == pay_dates(sched, o.calendar, o.payment_convention)
        begins == starts(sched, pays)
    IN  IF Len(sched) < 2 THEN <<>>
        ELSE [i \in 1..Len(pays) |-> period(i, begins[i], pays[i], Len(pays))]

List(rows) == [kind |-> "list", rows |-> rows]

\* periods = sch.generate()
Generate ==
    /\ periods' = generate(sch)
    /\ ret' = Returned("generate", <<>>, 0, 0, List(periods'))
    /\ UNCHANGED <<valuation_date, zero_csv, hazard_csv, pillars, times, rates, sch>>

(***************************************************************************)
(* build_cds_premium_df (pricing/cds.py)                                   *)
(*                                                                         *)
(* hazard_curve is the record [valuation_date, times, rates] and           *)
(* discount_curve the record [valuation_date, pillars].  A call on a curve *)
(* gives <<status, value>>; the first call that raises ends the function.  *)
(***************************************************************************)
Table(rows) == [kind |-> "table", rows |-> rows]

\* faulty variant: a period paid on val_date is kept
Retained_on_or_after(schedule, val_date) ==
    SelectSeq(schedule, LAMBDA t : t[2] >= val_date)

\* df[df["pay_date"] > val_date].reset_index(drop=True)
Retained(schedule, val_date) ==
    SelectSeq(schedule, LAMBDA t : t[2] > val_date)

\* 1e-16
Floor == Pow(Rat(10), Rat(-16))

\* max(p, 1e-16) for p = exp(-x): p is below 1e-16 when x is above
\* 16 ln 10 = 36.84136...; no x of the model lies between 36.84 and 36.85
MaxFloor(p) ==
    IF RLess(Norm(3684, 100), RNeg(Exponent(p, Euler))) THEN Floor ELSE p

\* denom = max(hazard_curve.survival_probability(val_date + 1 day), 1e-16)
Denom(hazard_curve, val_date) ==
    LET q == survival_probability(hazard_curve.times, hazard_curve.rates,
                                  hazard_curve.valuation_date, val_date + 1)
    IN  IF q[1] # "ok" THEN q ELSE <<"ok", Float(MaxFloor(q[2].pp))>>

\* faulty variant: the survival probability to the payment date itself
survival_at_pay(hazard_curve, pay, denom) ==
    LET q == survival_probability(hazard_curve.times, hazard_curve.rates,
                                  hazard_curve.valuation_date, pay)
    IN  IF q[1] # "ok" THEN q ELSE <<"ok", Float(PDiv(q[2].pp, denom))>>

\* s = hazard_curve.survival_probability(pay - 1 day) / denom
survival(hazard_curve, pay, denom) ==
    LET q == survival_probability(hazard_curve.times, hazard_curve.rates,
                                  hazard_curve.valuation_date, pay - 1)
    IN  IF q[1] # "ok" THEN q ELSE <<"ok", Float(PDiv(q[2].pp, denom))>>

\* nominal * rate * year_fraction
cashflow(nominal, rate, year_fraction_) == RMul(RMul(nominal, rate), year_fraction_)

\* faulty variant: a half is rounded up
RoundHalfUp(days) == (days + 1) \div 2

\* round(days / 2): a half is rounded to the even neighbour
RoundHalfEven(days) ==
    LET q == days \div 2
    IN  IF days % 2 = 0 THEN q ELSE IF q % 2 = 0 THEN q ELSE q + 1

\* the body of the midpoint loop; row i > 1 here is row i > 0 there
mid_date(i, row, val_date) ==
    LET start == IF i > 1 THEN row[1] ELSE val_date
        pay == row[2]
        days == pay - start
    IN  start + RoundHalfEven(days)

\* faulty variant: every term is taken from survival 1.0
accrual_prob_term_from_one(prev_s, s_curr) ==
    SScale(SSub(Term(Unit, One), Term(Unit, s_curr)), Half)

\* 0.5 * (prev_s - s_curr)
accrual_prob_term(prev_s, s_curr) ==
    SScale(SSub(Term(Unit, prev_s), Term(Unit, s_curr)), Half)

\* the loop over df["survival"], prev_s being the survival before
RECURSIVE accrual_prob_terms(_, _)
accrual_prob_terms(survivals, prev_s) ==
    IF survivals = <<>> THEN <<>>
    ELSE <<accrual_prob_term(prev_s, Head(survivals))>>
             \o accrual_prob_terms(Tail(survivals), Head(survivals))

\* survival * cashflow * discount_factor + accrual_prob_term * accrual_df * cashflow
pv(survival_, cashflow_, discount_factor_, accrual_prob_term_, accrual_df) ==
    SAdd(Term(cashflow_, PMul(survival_, discount_factor_)),
         SScale(SMul(accrual_prob_term_, accrual_df), cashflow_))

\* the status of the first call of a column that raised
FirstError(column) ==
    column[CHOOSE i \in DOMAIN column :
               /\ column[i][1] # "ok"
               /\ \A j \in 1..(i - 1) : column[j][1] = "ok"][1]

Failed(column) == \E i \in DOMAIN column : column[i][1] # "ok"

\* faulty variant: a midpoint that is no pillar is discounted at 1.0
ColumnsMidpointDefault(df, hazard_curve, discount_curve, val_date, nominal, rate) ==
    LET denom == Denom(hazard_curve, val_date)
        survivals == [i \in DOMAIN df |-> survival(hazard_curve, df[i][2], denom[2].pp)]
        dfs_pay == [i \in DOMAIN df |->
                       discount_factor(discount_curve.pillars, discount_curve.valuation_date,
                                       val_date, df[i][2])]
        mid_dfs == [i \in DOMAIN df |->
                       LET q == discount_factor(discount_curve.pillars,
                                                discount_curve.valuation_date,
                                                val_date, mid_date(i, df[i], val_date))
                       IN  IF q[1] = "ok" THEN q ELSE <<"ok", Float(One)>>]
        terms == accrual_prob_terms([i \in DOMAIN df |-> survivals[i][2].pp], One)
    IN  IF denom[1] # "ok" THEN <<denom[1], NoValue>>
        ELSE IF Failed(survivals) THEN <<FirstError(survivals), NoValue>>
        ELSE IF Failed(dfs_pay) THEN <<FirstError(dfs_pay), NoValue>>
        ELSE IF Failed(mid_dfs) THEN <<FirstError(mid_dfs), NoValue>>
        ELSE <<"ok",
               Table([i \in DOMAIN df |->
                   [accrual_start |-> df[i][1],
                    pay_date |-> df[i][2],
                    year_fraction |-> df[i][3],
                    survival |-> survivals[i][2].pp,
                    discount_factor |-> dfs_pay[i][2].pp,
                    cashflow |-> cashflow(nominal, rate, df[i][3]),
                    accrual_df |-> mid_dfs[i][2].pp,
                    accrual_prob_term |-> terms[i],
                    pv |-> pv(survivals[i][2].pp, cashflow(nominal, rate, df[i][3]),
                              dfs_pay[i][2].pp, terms[i], mid_dfs[i][2].pp)]])>>

\* the columns of the retained rows, one column after the other
Columns(df, hazard_curve, discount_curve, val_date, nominal, rate) ==
    LET denom == Denom(hazard_curve, val_date)
        survivals == [i \in DOMAIN df |-> survival(hazard_curve, df[i][2], denom[2].pp)]
        dfs_pay == [i \in DOMAIN df |->
                       discount_factor(discount_curve.pillars, discount_curve.valuation_date,
                                       val_date, df[i][2])]
        mid_dfs == [i \in DOMAIN df |->
                       discount_factor(discount_curve.pillars, discount_curve.valuation_date,
                                       val_date, mid_date(i, df[i], val_date))]
        terms == accrual_prob_terms([i \in DOMAIN df |-> survivals[i][2].pp], One)
    IN  IF denom[1] # "ok" THEN <<denom[1], NoValue>>
        ELSE IF Failed(survivals) THEN <<FirstError(survivals), NoValue>>
        ELSE IF Failed(dfs_pay) THEN <<FirstError(dfs_pay), NoValue>>
        ELSE IF Failed(mid_dfs) THEN <<FirstError(mid_dfs), NoValue>>
        ELSE <<"ok",
               Table([i \in DOMAIN df |->
                   [accrual_start |-> df[i][1],
                    pay_date |-> df[i][2],
                    year_fraction |-> df[i][3],
                    survival |-> survivals[i][2].pp,
                    discount_factor |-> dfs_pay[i][2].pp,
                    cashflow |-> cashflow(nominal, rate, df[i][3]),
                    accrual_df |-> mid_dfs[i][2].pp,
                    accrual_prob_term |-> terms[i],
                    pv |-> pv(survivals[i][2].pp, cashflow(nominal, rate, df[i][3]),
                              dfs_pay[i][2].pp, terms[i], mid_dfs[i][2].pp)]])>>

\* faulty variant: the curves are queried before the table is found empty
build_cds_premium_df_queries_first(schedule, hazard_curve, discount_curve, val_date, nominal, rate) ==
    LET df == Retained(schedule, val_date)
        denom == Denom(hazard_curve, val_date)
    IN  IF denom[1] # "ok" THEN <<denom[1], NoValue>>
        ELSE IF df = <<>> THEN <<"ok", Table(<<>>)>>
        ELSE Columns(df, hazard_curve, discount_curve, val_date, nominal, rate)

build_cds_premium_df(schedule, hazard_curve, discount_curve, val_date, nominal, rate) ==
    LET df == Retained(schedule, val_date)
    IN  IF schedule = <<>> THEN <<"ok", Table(<<>>)>>
        ELSE IF df = <<>> THEN <<"ok", Table(<<>>)>>
        ELSE Columns(df, hazard_curve, discount_curve, val_date, nominal, rate)

\* faulty variant: the caller's list is filtered in place
BuildCdsPremiumDfInPlace(val_date, nominal, rate) ==
    /\ ret' = Outcome("build_cds_premium_df", val_date, 0,
                      build_cds_premium_df(
                          periods,
                          [valuation_date |-> valuation_date, times |-> times, rates |-> rates],
                          [valuation_date |-> valuation_date, pillars |-> pillars],
                          val_date, nominal, rate))
    /\ periods' = Retained(periods, val_date)
    /\ UNCHANGED <<valuation_date, zero_csv, hazard_csv, sch, pillars, times, rates>>

\* build_cds_premium_df(schedule=periods, hazard_curve=curve,
\*                      discount_curve=discount_curve, val_date, nominal, rate)
BuildCdsPremiumDf(val_date, nominal, rate) ==
    /\ ret' = Outcome("build_cds_premium_df", val_date, 0,
                      build_cds_premium_df(
                          periods,
                          [valuation_date |-> valuation_date, times |-> times, rates |-> rates],
                          [valuation_date |-> valuation_date, pillars |-> pillars],
                          val_date, nominal, rate))
    /\ UNCHANGED <<files, pillars, times, rates>>

(***************************************************************************)
(* Inputs and specifications                                               *)
(***************************************************************************)
\* the dates of hazard rows and survival queries
Dates == (ScenarioVal - 1)..(ScenarioVal + MaxDay)

\* the dates of zero rows and discount queries
ZeroDates == (ScenarioVal - 1)..(ScenarioVal + MaxDay - 1)

\* zero rates: 0% and 1%
ZeroRates == {Zero, Norm(1, 100)}

\* the rows of a file: a row dated before the valuation date, rows dated on or
\* after it at every rate, and the malformed rows
ZeroFiles ==
    SeqsUpTo({Row(ScenarioVal - 1, Norm(1, 100))}
                 \cup {Row(d, r) : d \in ZeroDates \ {ScenarioVal - 1}, r \in ZeroRates}
                 \cup Malformed(ScenarioVal + 1, Norm(1, 100)), MaxRows)

\* ZeroCurve(val), HazardRateCurve(val), the files they are given, the
\* CDSCashflowSchedule object and the caller's schedule list
Started(zfiles, hfiles, schedules, lists) ==
    /\ valuation_date = ScenarioVal
    /\ zero_csv \in zfiles
    /\ hazard_csv \in hfiles
    /\ pillars = <<>>
    /\ times = <<>>
    /\ rates = <<>>
    /\ sch \in schedules
    /\ periods \in lists
    /\ ret = Returned("init", <<>>, 0, 0, NoValue)

\* the script's schedule object, with the dates of the model: a quarterly
\* tenor is MaxTenor days, and no day is a holiday
ScriptSchedule ==
    [start_date |-> ScenarioVal - 1, end_date |-> ScenarioVal + MaxDay,
     calendar |-> {}, payment_convention |-> "Following", tenor |-> MaxTenor]

Constructed(zfiles, hfiles) == Started(zfiles, hfiles, {ScriptSchedule}, {<<>>})

ZeroInit == Constructed(ZeroFiles, {<<>>})

ZeroNext ==
    \/ ZeroLoad
    \/ \E d_from \in ZeroDates, d_to \in ZeroDates : DiscountFactor(d_from, d_to)
    \/ \E d_start \in ZeroDates, d_end \in ZeroDates : ForwardRateCont(d_start, d_end)
    \/ \E d_start \in ZeroDates, d_end \in ZeroDates : ForwardRateNaca(d_start, d_end)

ZeroSpec == ZeroInit /\ [][ZeroNext]_vars

HazardRates == {Norm(k, 100) : k \in (-1)..MaxRate}

\* the rows of a file: rows dated before and on the valuation date, rows dated
\* after it at every rate, and the malformed rows
HazardFiles ==
    SeqsUpTo({Row(d, Norm(1, 100)) : d \in {ScenarioVal - 1, ScenarioVal}}
                 \cup {Row(d, r) : d \in (ScenarioVal + 1)..(ScenarioVal + MaxDay),
                                   r \in HazardRates}
                 \cup Malformed(ScenarioVal + 1, Norm(1, 100)), MaxRows)

HazardInit == Constructed({<<>>}, HazardFiles)

HazardNext ==
    \/ HazardLoad
    \/ \E end_date \in Dates : SurvivalProbability(end_date)

HazardSpec == HazardInit /\ [][HazardNext]_vars

\* the script's scenario: the hazard file holds the row (2028-03-15, 0.0123)
ScenarioRate == Norm(123, 10000)

ScenarioDates == Dates \cup {ScenarioEnd - 1, ScenarioEnd, ScenarioEnd + 1}

ScenarioFiles ==
    SeqsUpTo({Row(d, ScenarioRate) : d \in ScenarioDates}
                 \cup Malformed(ScenarioEnd, ScenarioRate), MaxRows)

ScenarioInit == Constructed({<<>>}, ScenarioFiles)

ScenarioNext ==
    \/ HazardLoad
    \/ \E end_date \in ScenarioDates : SurvivalProbability(end_date)

ScenarioSpec == ScenarioInit /\ [][ScenarioNext]_vars

\* the schedule objects: every interval of the dates, degenerate ones
\* included, every tenor, every set of holidays, every convention
Schedules ==
    [start_date : Dates, end_date : Dates, calendar : SUBSET Dates,
     payment_convention : Conventions, tenor : 1..MaxTenor]

ScheduleInit == Started({<<>>}, {<<>>}, Schedules, {<<>>})

ScheduleNext == Generate

ScheduleSpec == ScheduleInit /\ [][ScheduleNext]_vars

\* the pricing scenario: the payment dates of the schedule list
PayDates == ScenarioVal..(ScenarioVal + MaxDay)

\* the periods of a schedule list: paid on any date, accruing from the first
\* date or from the day before payment, with the year fraction of generate()
PeriodKinds ==
    UNION {{<<s, p, Norm(p - s, 365)>> : s \in {ScenarioVal, p - 1}} : p \in PayDates}

\* a zero file with a row on every payment date but those skipped, at
\* 0%, 1%, 2%, ... by date
DenseZeroFile(skipped) ==
    LET kept == PayDates \ skipped
    IN  [i \in 1..Cardinality(kept) |->
            LET d == CHOOSE e \in kept : Cardinality({f \in kept : f < e}) = i - 1
            IN  Row(d, Norm(d - ScenarioVal, 100))]

PricingZeroFiles == {DenseZeroFile(s) : s \in {{}, {ScenarioVal}, {ScenarioVal + 2}}}

\* a hazard rate so steep that survival to the next day is below 1e-16
SteepRate == Rat(20000)

PricingHazardFiles ==
    {<<Row(ScenarioVal + 1, Norm(1, 100)), Row(ScenarioVal + MaxDay, Norm(MaxRate, 100))>>,
     <<Row(ScenarioVal + 1, SteepRate)>>}

\* val_date: the valuation date of the curves and the day after
ValDates == {ScenarioVal, ScenarioVal + 1}

\* nominal = 1,000,000 and rate = 0.01
Nominal == Rat(1000000)

PremiumRate == Norm(1, 100)

PricingInit ==
    Started(PricingZeroFiles, PricingHazardFiles, {ScriptSchedule},
            SeqsUpTo(PeriodKinds, MaxPeriods))

PricingNext ==
    \/ ZeroLoad
    \/ HazardLoad
    \/ \E val_date \in ValDates : BuildCdsPremiumDf(val_date, Nominal, PremiumRate)

PricingSpec == PricingInit /\ [][PricingNext]_vars

\* the whole script: both curves, the schedule object with and without a
\* holiday on its middle boundary, and every query
ScriptSchedules ==
    {ScriptSchedule, [ScriptSchedule EXCEPT !.calendar = {ScenarioVal + 1}]}

ScriptInit == Started(PricingZeroFiles, PricingHazardFiles, ScriptSchedules, {<<>>})

ScriptNext ==
    \/ ZeroLoad
    \/ HazardLoad
    \/ Generate
    \/ \E d_from \in PayDates, d_to \in PayDates : DiscountFactor(d_from, d_to)
    \/ \E d_start \in PayDates, d_end \in PayDates : ForwardRateCont(d_start, d_end)
    \/ \E d_start \in PayDates, d_end \in PayDates : ForwardRateNaca(d_start, d_end)
    \/ \E end_date \in PayDates : SurvivalProbability(end_date)
    \/ \E val_date \in ValDates : BuildCdsPremiumDf(val_date, Nominal, PremiumRate)

ScriptSpec == ScriptInit /\ [][ScriptNext]_vars

\* both loaders, each on every file of its own specification
LoadInit ==
    \/ Started(ZeroFiles, {<<>>}, {ScriptSchedule}, {<<>>})
    \/ Started({<<>>}, HazardFiles, {ScriptSchedule}, {<<>>})

LoadNext ==
    \/ ZeroLoad
    \/ HazardLoad

LoadSpec == LoadInit /\ [][LoadNext]_vars

\* the times _interp_lambda is asked at: every half day from before the
\* valuation date to after the last date
InterpTimes == {Norm(k, 730) : k \in (-1)..(2 * MaxDay + 1)}

InterpNext ==
    \/ HazardLoad
    \/ \E t \in InterpTimes : InterpLambda(t)

InterpSpec == HazardInit /\ [][InterpNext]_vars

\* the caller names other files for the loads to come
NextFiles(zfile, hfile) ==
    /\ zero_csv' = zfile
    /\ hazard_csv' = hfile
    /\ UNCHANGED <<valuation_date, pillars, times, rates, sch, periods, ret>>

\* a file neither curve can load, a file of one row and a file of two others
ReloadFiles ==
    {<<Row(ScenarioVal - 1, Norm(1, 100))>>,
     <<Row(ScenarioVal + 1, Norm(1, 100))>>,
     <<Row(ScenarioVal + 2, Norm(MaxRate, 100)), Row(ScenarioVal + MaxDay, Norm(1, 100))>>}

ReloadInit == Started(ReloadFiles, ReloadFiles, {ScriptSchedule}, {<<>>})

ReloadNext ==
    \/ ZeroLoad
    \/ HazardLoad
    \/ \E zfile \in ReloadFiles, hfile \in ReloadFiles : NextFiles(zfile, hfile)

ReloadSpec == ReloadInit /\ [][ReloadNext]_vars

(***************************************************************************)
(* Properties                                                              *)
(***************************************************************************)
Range(f) == {f[i] : i \in DOMAIN f}

ForwardOps == {"forward_rate_cont", "forward_rate_naca"}

\* the float a call returned, as minus its exponent of e: the hazard integral
\* x of a survival probability exp(-x)
IntegralOf(v) == RNeg(Exponent(v.pp, Euler))

\* C1: discount_factor(d, d) returns exactly 1.0 and raises nothing, for every
\* pillar set (the empty one included) and every date d, pillar or not.
C1_EqualDatesGiveOne ==
    (ret.op = "discount_factor" /\ ret.a = ret.b)
        => (ret.status = "ok" /\ ret.value = Float(One))

\* a loaded curve was asked discount_factor(d, d) for a date d that is no pillar
C1_Witness ==
    /\ ret.op = "discount_factor"
    /\ ret.a = ret.b
    /\ pillars # <<>>
    /\ ret.a \notin Keys(pillars)
    /\ ret.status = "ok"

\* C2: discount_factor(d_from, d_to) with d_from # d_to and one of them not a
\* key of the pillar map raises KeyError and returns no value, the valuation
\* date included.
C2_MissingPillarRaises ==
    (/\ ret.op = "discount_factor"
     /\ ret.a # ret.b
     /\ (ret.a \notin Keys(pillars) \/ ret.b \notin Keys(pillars)))
        => (ret.status = "KeyError" /\ ret.value = NoValue)

\* a loaded curve without a pillar on the valuation date was asked the factor
\* from the valuation date to one of its pillars
C2_Witness ==
    /\ ret.op = "discount_factor"
    /\ pillars # <<>>
    /\ ret.a = valuation_date
    /\ ret.a \notin Keys(pillars)
    /\ ret.b \in Keys(pillars)
    /\ ret.status = "KeyError"

\* C3 as stated: a forward-rate query whose d_end is not strictly after d_start
\* raises ValueError, for every pair of dates.
C3_Original ==
    (ret.op \in ForwardOps /\ ret.b <= ret.a) => ret.status = "ValueError"

\* C3 as amended: a forward-rate query whose d_end is not strictly after
\* d_start never returns a rate; it raises ValueError when both dates are
\* pillars and KeyError when one of them is not.
C3_InvalidIntervalRaises ==
    (ret.op \in ForwardOps /\ ret.b <= ret.a)
        => /\ ret.value = NoValue
           /\ ret.status =
                  IF ret.a \in Keys(pillars) /\ ret.b \in Keys(pillars)
                  THEN "ValueError" ELSE "KeyError"

\* forward_rate_cont was asked for two equal pillar dates, and forward_rate_naca
\* raises the same for them
C3_Witness ==
    /\ ret.op = "forward_rate_cont"
    /\ ret.a = ret.b
    /\ ret.a \in Keys(pillars)
    /\ ret.status = "ValueError"
    /\ forward_rate_naca(pillars, valuation_date, ret.a, ret.b)[1] = "ValueError"

\* the parsed rows of the file dated on or after the valuation date
ZeroKept(file, val) == {row \in Range(ParsedRows(file)) : row.date >= val}

\* the last line of the file that parses and carries the date d
LastRowDated(file, d) ==
    LET parsed == ParsedRows(file)
    IN  parsed[CHOOSE i \in DOMAIN parsed :
                   /\ parsed[i].date = d
                   /\ \A j \in (i + 1)..Len(parsed) : parsed[j].date # d]

\* C4: ZeroCurve.load_from_csv raises ValueError exactly when no parsed row is
\* dated on or after the valuation date; otherwise the pillar dates are exactly
\* the dates of those rows (each with the rate of the last row carrying it), so
\* the map is not empty, every key is >= the valuation date, and the keys are
\* in ascending order.
C4_ZeroLoadKeepsOnOrAfter ==
    ret.op = "ZeroCurve.load_from_csv" =>
        LET kept == ZeroKept(ret.file, valuation_date)
        IN  /\ ret.status = IF kept = {} THEN "ValueError" ELSE "ok"
            /\ ret.status = "ok" =>
                   /\ Keys(pillars) = {row.date : row \in kept}
                   /\ \A i \in DOMAIN pillars :
                          pillars[i][2] = LastRowDated(ret.file, pillars[i][1]).rate
                   /\ pillars # <<>>
                   /\ \A i \in DOMAIN pillars : pillars[i][1] >= valuation_date
                   /\ \A i, j \in DOMAIN pillars :
                          i < j => pillars[i][1] < pillars[j][1]

\* a file was loaded whose rows are not in date order, with a row dated on the
\* valuation date (kept) and two pillars
C4_Witness ==
    /\ ret.op = "ZeroCurve.load_from_csv"
    /\ ret.status = "ok"
    /\ Len(ret.file) = 2
    /\ Parsed(ret.file[1]) /\ Parsed(ret.file[2])
    /\ ret.file[2].date = valuation_date
    /\ ret.file[1].date > valuation_date
    /\ Len(pillars) = 2

\* the parsed rows of the file dated strictly after the valuation date
HazardKept(file, val) == {row \in Range(ParsedRows(file)) : row.date > val}

\* C5: HazardRateCurve.load_from_csv raises ValueError exactly when no parsed
\* row is dated strictly after the valuation date; otherwise the knots after
\* the synthetic one are exactly at the dates of those rows, each with the
\* rate of such a row.
C5_HazardLoadKeepsStrictlyAfter ==
    ret.op = "HazardRateCurve.load_from_csv" =>
        LET kept == HazardKept(ret.file, valuation_date)
        IN  /\ ret.status = IF kept = {} THEN "ValueError" ELSE "ok"
            /\ ret.status = "ok" =>
                   /\ {times[i] : i \in 2..Len(times)}
                          = {Norm(row.date - valuation_date, 365) : row \in kept}
                   /\ \A i \in 2..Len(times) :
                          \E row \in kept :
                              /\ Norm(row.date - valuation_date, 365) = times[i]
                              /\ row.rate = rates[i]

\* a file with a row dated on the valuation date and a row dated after it was
\* loaded: the curve has the one knot of the later row
C5_Witness ==
    /\ ret.op = "HazardRateCurve.load_from_csv"
    /\ ret.status = "ok"
    /\ \E i \in DOMAIN ret.file :
           Parsed(ret.file[i]) /\ ret.file[i].date = valuation_date
    /\ Len(times) = 2

\* C6: after a successful hazard load the knot times are strictly increasing
\* and start at 0, times and rates have the same length, there are at least
\* two knots, and the one-point guard has added none of them.
C6_KnotsWellFormed ==
    /\ times # <<>> =>
           /\ \A i, j \in DOMAIN times : i < j => RLess(times[i], times[j])
           /\ times[1] = Zero
           /\ Len(times) = Len(rates)
           /\ Len(times) >= 2
    /\ (ret.op = "HazardRateCurve.load_from_csv" /\ ret.status = "ok") =>
           LET rows  == SortByDate(HazardRows(ret.file, valuation_date))
               built == BuildKnots(rows, valuation_date, rows[1].rate)
           IN  /\ Len(built.times) >= 2
               /\ times = built.times
               /\ rates = built.rates

\* a file holding the same date twice, after a later date, was loaded
C6_Witness ==
    /\ ret.op = "HazardRateCurve.load_from_csv"
    /\ ret.status = "ok"
    /\ Len(ret.file) = 2
    /\ Parsed(ret.file[1]) /\ Parsed(ret.file[2])
    /\ ret.file[1].date = ret.file[2].date
    /\ ret.file[1].rate # ret.file[2].rate
    /\ Len(times) = 2

\* C7: survival_probability(end_date) returns exactly 1.0 for every end_date
\* on or before the valuation date.
C7_SurvivalIsOneUpToValuation ==
    (ret.op = "survival_probability" /\ ret.a <= valuation_date)
        => (ret.status = "ok" /\ ret.value = Float(One))

\* a loaded curve whose rates are not 0 was asked the survival to a date
\* before the valuation date
C7_Witness ==
    /\ ret.op = "survival_probability"
    /\ ret.a < valuation_date
    /\ times # <<>>
    /\ \A i \in DOMAIN rates : RLess(Zero, rates[i])
    /\ ret.status = "ok"

NonNegative(rt) == \A i \in DOMAIN rt : RLeq(Zero, rt[i])

\* the integral survival_probability computes for the date d, 0 when d is on
\* or before the valuation date
IntegralTo(d) == IntegralOf(survival_probability(times, rates, valuation_date, d)[2])

\* C8: on a loaded curve whose rates are all non-negative, the hazard integral
\* of survival_probability for a date is at least the one for every earlier
\* date, so survival is non-increasing in the horizon.
C8_SurvivalNonIncreasing ==
    (/\ ret.op = "survival_probability"
     /\ ret.status = "ok"
     /\ times # <<>>
     /\ NonNegative(rates))
        => \A d \in (valuation_date - 1)..ret.a :
               RLeq(IntegralTo(d), IntegralOf(ret.value))

\* the horizon lies strictly between two knots of different rates, and the
\* integral to the earlier knot is strictly smaller
C8_Witness ==
    /\ ret.op = "survival_probability"
    /\ ret.status = "ok"
    /\ Len(times) = 3
    /\ NonNegative(rates)
    /\ rates[2] # rates[3]
    /\ RLess(times[2], Norm(ret.a - valuation_date, 365))
    /\ RLess(Norm(ret.a - valuation_date, 365), times[3])
    /\ RLess(Zero, IntegralTo(ret.a - 1))
    /\ RLess(IntegralTo(ret.a - 1), IntegralOf(ret.value))

\* C9: for a horizon T beyond the last knot time t_last, the integral over
\* [0, T] is the integral over [0, t_last] plus rate_last * (T - t_last).
C9_FlatBeyondLastKnot ==
    (/\ ret.op = "survival_probability"
     /\ ret.status = "ok"
     /\ times # <<>>
     /\ RLess(Last(times), Norm(ret.a - valuation_date, 365)))
        => IntegralOf(ret.value)
               = RAdd(HazardIntegral(times, rates, Last(times)),
                      RMul(Last(rates),
                           RSub(Norm(ret.a - valuation_date, 365), Last(times))))

\* the horizon is beyond the last of two knots of different rates
C9_Witness ==
    /\ ret.op = "survival_probability"
    /\ ret.status = "ok"
    /\ Len(times) = 3
    /\ rates[2] # rates[3]
    /\ RLess(Zero, rates[3])
    /\ RLess(Last(times), Norm(ret.a - valuation_date, 365))

\* the curve loaded from the single row (2028-03-15, 0.0123)
ScenarioLoaded ==
    /\ valuation_date = ScenarioVal
    /\ times = HazardKnots(<<Row(ScenarioEnd, ScenarioRate)>>, ScenarioVal).times
    /\ rates = HazardKnots(<<Row(ScenarioEnd, ScenarioRate)>>, ScenarioVal).rates

ScenarioQueried ==
    /\ ScenarioLoaded
    /\ ret.op = "survival_probability"
    /\ ret.a = ScenarioEnd
    /\ ret.status = "ok"

\* C10 as stated: in the scenario the integrated hazard is > 0 and
\* < 0.0123 * 2.63.
C10_Original ==
    ScenarioQueried =>
        /\ RLess(Zero, IntegralOf(ret.value))
        /\ RLess(IntegralOf(ret.value), RMul(ScenarioRate, Norm(263, 100)))

\* C10 as amended: in the scenario the integrated hazard is 0.0123 * 961/365,
\* which is > 0, > 0.0123 * 2.63 and < 0.0123 * 2.64; the survival probability
\* is < 1.0, < exp(-0.0123 * 2.63) and > exp(-0.0123 * 2.64).
C10_ScenarioSurvival ==
    ScenarioQueried =>
        /\ ScenarioEnd - ScenarioVal = 961
        /\ IntegralOf(ret.value) = RMul(ScenarioRate, Norm(961, 365))
        /\ ret.value # Float(One)
        /\ RLess(Zero, IntegralOf(ret.value))
        /\ RLess(RMul(ScenarioRate, Norm(263, 100)), IntegralOf(ret.value))
        /\ RLess(IntegralOf(ret.value), RMul(ScenarioRate, Norm(264, 100)))

\* the scenario's file was loaded and survival_probability(2028-03-15) asked
C10_Witness == ScenarioQueried /\ hazard_csv = <<Row(ScenarioEnd, ScenarioRate)>>

\* the unadjusted boundaries of the schedule object
Boundaries == Schedule(sch.start_date, sch.end_date, sch.tenor)

Generated == ret.op = "generate"

\* C11: generate() returns one period for every unadjusted boundary but the
\* first when there are at least 2 boundaries, and the empty list when there
\* are fewer than 2.
C11_OnePeriodPerBoundaryAfterFirst ==
    Generated =>
        Len(ret.value.rows) = (IF Len(Boundaries) >= 2 THEN Len(Boundaries) - 1 ELSE 0)

C11_Witness ==
    /\ Generated
    /\ Len(Boundaries) >= 3
    /\ Len(ret.value.rows) = Len(Boundaries) - 1

\* C12: the first period accrues from start_date; every later period accrues
\* from the adjusted payment date of the period before it.
C12_AccrualStartsChain ==
    Generated =>
        \A i \in DOMAIN ret.value.rows :
            ret.value.rows[i][1] = (IF i = 1 THEN sch.start_date
                                    ELSE ret.value.rows[i - 1][2])

\* a later period whose start is an adjusted date, not its boundary
C12_Witness ==
    /\ Generated
    /\ \E i \in DOMAIN ret.value.rows :
           /\ i > 1
           /\ ret.value.rows[i][1] = ret.value.rows[i - 1][2]
           /\ ret.value.rows[i][1] # Boundaries[i]

\* C13: of the N periods returned, the last has the year fraction
\* ((pay_date - accrual_start).days + 1) / 365 and every other one
\* (pay_date - accrual_start).days / 365; a single period gets the extra day.
C13_LastPeriodHasOneDayMore ==
    Generated =>
        \A i \in DOMAIN ret.value.rows :
            LET row == ret.value.rows[i]
                days == row[2] - row[1]
            IN  row[3] = (IF i = Len(ret.value.rows) THEN Norm(days + 1, 365)
                          ELSE Norm(days, 365))

C13_Witness ==
    /\ Generated
    /\ Len(ret.value.rows) >= 2
    /\ ret.value.rows[1][3] = Norm(ret.value.rows[1][2] - ret.value.rows[1][1], 365)
    /\ LET row == ret.value.rows[Len(ret.value.rows)]
       IN  row[3] = Norm(row[2] - row[1] + 1, 365)

\* C14: the payment date of a period is the adjusted boundary that ends it,
\* the boundaries themselves being unadjusted; the last payment date is the
\* adjusted end_date.
C14_PayDatesAreAdjustedBoundaries ==
    Generated =>
        /\ \A i \in DOMAIN ret.value.rows :
               ret.value.rows[i][2] =
                   adjust(sch.calendar, Boundaries[i + 1], sch.payment_convention)
        /\ ret.value.rows # <<>> =>
               ret.value.rows[Len(ret.value.rows)][2] =
                   adjust(sch.calendar, sch.end_date, sch.payment_convention)

\* two periods, the first paid on a date moved off a holiday boundary
C14_Witness ==
    /\ Generated
    /\ Len(ret.value.rows) >= 2
    /\ Boundaries[2] \in sch.calendar
    /\ ret.value.rows[1][2] # Boundaries[2]
    /\ ret.value.rows[1][2] = adjust(sch.calendar, Boundaries[2], sch.payment_convention)

Built == ret.op = "build_cds_premium_df"

\* the indices of the caller's periods paid strictly after the date d
PaidAfter(d) == {i \in DOMAIN periods : periods[i][2] > d}

\* the k-th smallest element of a set of integers
Nth(S, k) == CHOOSE i \in S : Cardinality({j \in S : j < i}) = k - 1

\* C15: the rows of the table build_cds_premium_df returns are exactly the
\* periods of the schedule paid strictly after val_date, in their order, with
\* accrual_start, pay_date and year_fraction unchanged; a period paid on
\* val_date is dropped.
C15_RowsArePeriodsPaidAfterVal ==
    (Built /\ ret.status = "ok") =>
        /\ Len(ret.value.rows) = Cardinality(PaidAfter(ret.a))
        /\ \A k \in DOMAIN ret.value.rows :
               LET row == ret.value.rows[k]
               IN  <<row.accrual_start, row.pay_date, row.year_fraction>>
                       = periods[Nth(PaidAfter(ret.a), k)]

\* a period paid on val_date is dropped and the one after it is the first row
C15_Witness ==
    /\ Built
    /\ ret.status = "ok"
    /\ Len(periods) = 2
    /\ periods[1][2] = ret.a
    /\ Len(ret.value.rows) = 1
    /\ ret.value.rows[1].pay_date = periods[2][2]

\* the sum of the pv column
RECURSIVE TotalPV(_)
TotalPV(rows) == IF rows = <<>> THEN {} ELSE SAdd(Head(rows).pv, TotalPV(Tail(rows)))

NothingToPay(d) == \A i \in DOMAIN periods : periods[i][2] <= d

\* C16: when the schedule is empty or no period is paid after val_date,
\* build_cds_premium_df returns a table of zero rows (total PV 0) and raises
\* nothing, whatever the curves hold: it queries neither curve, and val_date
\* need not be a discount pillar.
C16_NothingToPayGivesEmptyTable ==
    (Built /\ NothingToPay(ret.a)) =>
        /\ ret.status = "ok"
        /\ ret.value = Table(<<>>)
        /\ TotalPV(ret.value.rows) = {}

\* periods all paid by val_date, and curves on which every query would raise
C16_Witness ==
    /\ Built
    /\ periods # <<>>
    /\ NothingToPay(ret.a)
    /\ times = <<>>
    /\ pillars = <<>>
    /\ ret.status = "ok"
    /\ ret.value = Table(<<>>)

\* what the curves of the state answer to the queries of the last call
SurvivalTo(d) == survival_probability(times, rates, valuation_date, d)[2].pp

DiscountTo(d) == discount_factor(pillars, valuation_date, ret.a, d)[2].pp

\* one row of the table, made in one step from the survival of the row before
FoldRow(i, p, prev_s) ==
    LET s == PDiv(SurvivalTo(p[2] - 1), MaxFloor(SurvivalTo(ret.a + 1)))
        cf == RMul(RMul(Nominal, PremiumRate), p[3])
        apt == SScale(SSub(Term(Unit, prev_s), Term(Unit, s)), Half)
        adf == DiscountTo(mid_date(i, p, ret.a))
    IN  [accrual_start |-> p[1], pay_date |-> p[2], year_fraction |-> p[3],
         survival |-> s, discount_factor |-> DiscountTo(p[2]), cashflow |-> cf,
         accrual_df |-> adf, accrual_prob_term |-> apt,
         pv |-> SAdd(Term(cf, PMul(s, DiscountTo(p[2]))), SScale(SMul(apt, adf), cf))]

\* the left-to-right fold over the periods paid after val_date
RECURSIVE FoldRows(_, _, _)
FoldRows(i, k, prev_s) ==
    IF i > Len(periods) THEN <<>>
    ELSE IF periods[i][2] <= ret.a THEN FoldRows(i + 1, k, prev_s)
    ELSE LET row == FoldRow(k, periods[i], prev_s)
         IN  <<row>> \o FoldRows(i + 1, k + 1, row.survival)

\* C17: the table built one column after the other is the table a single
\* left-to-right fold over the retained rows gives: the first retained row has
\* accrual_prob_term 0.5 * (1.0 - survival), every later one
\* 0.5 * (survival of the retained row before - survival).
C17_ColumnsAreALeftToRightFold ==
    (Built /\ ret.status = "ok") =>
        /\ ret.value.rows = FoldRows(1, 1, One)
        /\ \A i \in DOMAIN ret.value.rows :
               LET prev_s == IF i = 1 THEN One ELSE ret.value.rows[i - 1].survival
               IN  ret.value.rows[i].accrual_prob_term =
                       SScale(SSub(Term(Unit, prev_s),
                                   Term(Unit, ret.value.rows[i].survival)), Half)

\* two rows with different survivals below 1.0
C17_Witness ==
    /\ Built
    /\ ret.status = "ok"
    /\ Len(ret.value.rows) = 2
    /\ ret.value.rows[1].survival # One
    /\ ret.value.rows[2].survival # ret.value.rows[1].survival
    /\ ret.value.rows[2].accrual_prob_term =
           SScale(SSub(Term(Unit, ret.value.rows[1].survival),
                       Term(Unit, ret.value.rows[2].survival)), Half)

\* the integer nearest to n / 2, the even one of the two when n is odd
NearestEvenHalf(n) ==
    CHOOSE h \in (-Abs(n))..Abs(n) :
        \/ 2 * h = n
        \/ n % 2 = 1 /\ Abs(2 * h - n) = 1 /\ h % 2 = 0

\* C18: the accrual midpoint of a row starts at val_date for the first
\* retained row and at the row's accrual_start for the others; accrual_df is
\* discount_factor(val_date, mid_start + h days), h being half the days from
\* mid_start to pay_date rounded half to even (1 -> 0, 3 -> 2, 5 -> 2); the
\* midpoint lies between mid_start and pay_date when pay_date >= mid_start.
C18_MidpointRoundsHalfToEven ==
    /\ RoundHalfEven(1) = 0 /\ RoundHalfEven(3) = 2 /\ RoundHalfEven(5) = 2
    /\ (Built /\ ret.status = "ok") =>
           \A i \in DOMAIN ret.value.rows :
               LET row == ret.value.rows[i]
                   mid_start == IF i = 1 THEN ret.a ELSE row.accrual_start
                   mid == mid_start + NearestEvenHalf(row.pay_date - mid_start)
               IN  /\ row.accrual_df = DiscountTo(mid)
                   /\ row.pay_date >= mid_start => (mid_start <= mid /\ mid <= row.pay_date)

\* a first row paid 3 days after val_date, discounted to the second day, and
\* a second row of one day, discounted to its accrual_start
C18_Witness ==
    /\ Built
    /\ ret.status = "ok"
    /\ Len(ret.value.rows) = 2
    /\ ret.value.rows[1].pay_date = ret.a + 3
    /\ ret.value.rows[1].accrual_df = DiscountTo(ret.a + 2)
    /\ ret.value.rows[1].accrual_df # One
    /\ ret.value.rows[2].pay_date = ret.value.rows[2].accrual_start + 1
    /\ ret.value.rows[2].accrual_df = DiscountTo(ret.value.rows[2].accrual_start)
    /\ ret.value.rows[2].accrual_df # ret.value.rows[2].discount_factor

\* C19: in every row, survival = S(pay_date - 1 day) / max(S(val_date + 1
\* day), 1e-16), discount_factor = DF(val_date, pay_date), cashflow =
\* nominal * rate * year_fraction and pv = survival * cashflow *
\* discount_factor + accrual_prob_term * accrual_df * cashflow; the total PV
\* is the sum of the pv column.
C19_RowValues ==
    (Built /\ ret.status = "ok") =>
        \A i \in DOMAIN ret.value.rows :
            LET row == ret.value.rows[i]
                denom == IF RLess(Norm(3684, 100), IntegralOf(Float(SurvivalTo(ret.a + 1))))
                         THEN Pow(Rat(10), Rat(-16))
                         ELSE SurvivalTo(ret.a + 1)
            IN  /\ row.survival = PDiv(SurvivalTo(row.pay_date - 1), denom)
                /\ row.discount_factor = DiscountTo(row.pay_date)
                /\ row.cashflow = RMul(RMul(Nominal, PremiumRate), row.year_fraction)
                /\ row.pv = SAdd(Term(row.cashflow, PMul(row.survival, row.discount_factor)),
                                 SScale(SMul(row.accrual_prob_term, row.accrual_df),
                                        row.cashflow))

\* two rows with a denominator below 1.0, survivals that differ from it, and a
\* total PV with both terms of both rows
C19_Witness ==
    /\ Built
    /\ ret.status = "ok"
    /\ Len(ret.value.rows) = 2
    /\ SurvivalTo(ret.a + 1) # One
    /\ \A i \in 1..2 :
           /\ ret.value.rows[i].survival =
                  PDiv(SurvivalTo(ret.value.rows[i].pay_date - 1), SurvivalTo(ret.a + 1))
           /\ ret.value.rows[i].survival # One
           /\ ret.value.rows[i].cashflow # Zero
           /\ ret.value.rows[i].discount_factor # One
    /\ TotalPV(ret.value.rows) = SAdd(ret.value.rows[1].pv, ret.value.rows[2].pv)
    /\ Cardinality(TotalPV(ret.value.rows)) >= 4

QueryOps ==
    {"discount_factor", "forward_rate_cont", "forward_rate_naca",
     "survival_probability", "build_cds_premium_df"}

\* C20: a query (discount_factor, forward_rate_cont, forward_rate_naca,
\* survival_probability, build_cds_premium_df), whether it returns or raises,
\* leaves the pillars, the hazard times and rates and the caller's schedule
\* list as they were; the same query made again gives the same result.
C20_QueriesChangeNothing ==
    [][ret'.op \in QueryOps =>
           /\ pillars' = pillars
           /\ times' = times
           /\ rates' = rates
           /\ periods' = periods
           /\ (ret.op = ret'.op /\ ret.a = ret'.a /\ ret.b = ret'.b) => ret' = ret]_vars

\* a table built from loaded curves and a generated schedule, one of whose
\* periods was filtered out
C20_Witness ==
    /\ Built
    /\ ret.status = "ok"
    /\ pillars # <<>>
    /\ times # <<>>
    /\ Len(periods) = 2
    /\ Len(ret.value.rows) = 1

\* the rows of a file with two cells, a date and a rate
WellFormed(file) ==
    SelectSeq(file, LAMBDA row : row.cells >= 2 /\ row.date_ok /\ row.rate_ok)

\* C21: load_from_csv, of either curve, drops a row with fewer than two
\* cells, an unparseable date or an unparseable rate and goes on: it raises
\* or returns as it does on the well-formed rows alone, and the curve it
\* stores is the curve of the well-formed rows alone, wherever the malformed
\* rows sit in the file.
C21_MalformedRowsAreSkipped ==
    /\ ret.op = "ZeroCurve.load_from_csv" =>
           /\ ret.status = "ok" <=> ZeroRows(WellFormed(zero_csv), valuation_date) # <<>>
           /\ ret.status = "ok" =>
                  pillars = ZeroPillars(WellFormed(zero_csv), valuation_date)
    /\ ret.op = "HazardRateCurve.load_from_csv" =>
           /\ ret.status = "ok" <=> HazardRows(WellFormed(hazard_csv), valuation_date) # <<>>
           /\ ret.status = "ok" =>
                  /\ times = HazardKnots(WellFormed(hazard_csv), valuation_date).times
                  /\ rates = HazardKnots(WellFormed(hazard_csv), valuation_date).rates

\* a hazard curve loaded from a file whose first row is malformed
C21_Witness ==
    /\ ret.op = "HazardRateCurve.load_from_csv"
    /\ ret.status = "ok"
    /\ Len(hazard_csv) = 2
    /\ Len(WellFormed(hazard_csv)) = 1
    /\ WellFormed(hazard_csv)[1] = hazard_csv[2]
    /\ Len(times) = 2

\* C22: when the valuation date is a pillar, discount_factor(valuation_date,
\* d) for another pillar d quoted at r_d is (1 + r_d) ** (-T) with
\* T = (d - valuation_date).days / 365, whatever the rate quoted on the
\* valuation date and on every other pillar.
C22_DiscountFromValuationDate ==
    (/\ ret.op = "discount_factor"
     /\ ret.a = valuation_date
     /\ ret.b # ret.a
     /\ ret.a \in Keys(pillars)
     /\ ret.b \in Keys(pillars)) =>
        /\ ret.status = "ok"
        /\ ret.value = Float(Pow(RAdd(Unit, Get(pillars, ret.b)),
                                 RNeg(Norm(ret.b - valuation_date, 365))))

\* the valuation date is quoted at 1% and the other pillar at 0% or the
\* other way round
C22_Witness ==
    /\ ret.op = "discount_factor"
    /\ ret.status = "ok"
    /\ ret.a = valuation_date
    /\ ret.b > ret.a
    /\ Keys(pillars) = {ret.a, ret.b}
    /\ Get(pillars, ret.a) # Zero
    /\ Get(pillars, ret.b) # Get(pillars, ret.a)
    /\ ret.value = Float(Pow(RAdd(Unit, Get(pillars, ret.b)),
                             RNeg(Norm(ret.b - valuation_date, 365))))

\* C23: when several rows of the hazard file carry the same date, the loaded
\* curve has a single knot at the time of that date, and its rate is the rate
\* of the row that comes latest in the file among them, whatever the order of
\* the rows.
C23_DuplicateDatesKeepLatestRow ==
    (ret.op = "HazardRateCurve.load_from_csv" /\ ret.status = "ok") =>
        \A row \in HazardKept(hazard_csv, valuation_date) :
            LET at == {i \in DOMAIN times :
                          times[i] = Norm(row.date - valuation_date, 365)}
            IN  /\ Cardinality(at) = 1
                /\ \A i \in at : rates[i] = LastRowDated(hazard_csv, row.date).rate

\* two rows of one date with different rates, the date not being the earliest
\* rate's own: the knot carries the rate of the second row
C23_Witness ==
    /\ ret.op = "HazardRateCurve.load_from_csv"
    /\ ret.status = "ok"
    /\ Len(hazard_csv) = 2
    /\ Parsed(hazard_csv[1]) /\ Parsed(hazard_csv[2])
    /\ hazard_csv[1].date = hazard_csv[2].date
    /\ hazard_csv[1].rate # hazard_csv[2].rate
    /\ Len(times) = 2
    /\ rates[2] = hazard_csv[2].rate

\* C24: after every successful hazard load the rate of the synthetic knot at
\* t = 0 is the rate of the first knot after it, as stored after
\* deduplication, so that the hazard is flat from the valuation date to the
\* first real knot.
C24_SyntheticKnotHasFirstKnotRate ==
    (ret.op = "HazardRateCurve.load_from_csv" /\ ret.status = "ok") =>
        rates[1] = rates[2]

\* C25: on a loaded curve _interp_lambda(t) returns the rate of the first knot
\* when t <= t_min, the rate of the last knot when t >= t_max, and otherwise
\* the linear interpolation between the adjacent knots lo and lo + 1 that its
\* binary search ends on, with times[lo] <= t < times[lo + 1]; at the time of
\* a knot it returns the rate of that knot.
C25_InterpLambda ==
    (ret.op = "_interp_lambda" /\ times # <<>>) =>
        /\ ret.status = "ok"
        /\ RLeq(ret.a, times[1]) => ret.value.q = rates[1]
        /\ RLeq(Last(times), ret.a) => ret.value.q = Last(rates)
        /\ (RLess(times[1], ret.a) /\ RLess(ret.a, Last(times))) =>
               \E lo \in 1..(Len(times) - 1) :
                   /\ RLeq(times[lo], ret.a) /\ RLess(ret.a, times[lo + 1])
                   /\ Bisect(times, ret.a, 1, Len(times)) = <<lo, lo + 1>>
                   /\ ret.value.q =
                          RAdd(rates[lo],
                               RMul(RDiv(RSub(ret.a, times[lo]),
                                         RSub(times[lo + 1], times[lo])),
                                    RSub(rates[lo + 1], rates[lo])))
        /\ \A i \in DOMAIN times : ret.a = times[i] => ret.value.q = rates[i]

\* a time strictly inside the second of two segments with different rates at
\* its ends
C25_Witness ==
    /\ ret.op = "_interp_lambda"
    /\ ret.status = "ok"
    /\ Len(times) = 3
    /\ RLess(times[2], ret.a) /\ RLess(ret.a, times[3])
    /\ rates[2] # rates[3]
    /\ ret.value.q # rates[2] /\ ret.value.q # rates[3]

\* C26: for a loaded curve and a horizon T > 0, the integration grid of
\* survival_probability starts at 0, ends at T, holds between them exactly the
\* knot times strictly between 0 and T, and is strictly increasing, also when
\* T is a knot time: every trapezoid has a positive width and no knot inside.
C26_GridStrictlyIncreasing ==
    (/\ ret.op = "survival_probability"
     /\ times # <<>>
     /\ ret.a > valuation_date) =>
        LET T == Norm(ret.a - valuation_date, 365)
            grid == Grid(times, T)
        IN  /\ ret.status = "ok"
            /\ grid[1] = Zero
            /\ Last(grid) = T
            /\ Range(grid) = {Zero, T} \cup {t \in Range(times) : RLess(Zero, t) /\ RLess(t, T)}
            /\ \A i \in 1..(Len(grid) - 1) :
                   /\ RLess(grid[i], grid[i + 1])
                   /\ \A t \in Range(times) : ~(RLess(grid[i], t) /\ RLess(t, grid[i + 1]))

\* the horizon is the last of three knots: the grid is 0, the middle knot, T
C26_Witness ==
    /\ ret.op = "survival_probability"
    /\ ret.status = "ok"
    /\ Len(times) = 3
    /\ Norm(ret.a - valuation_date, 365) = times[3]
    /\ Grid(times, times[3]) = times

\* the dates the discount curve is asked for by the last call: val_date, the
\* payment dates after it and the midpoints other than val_date
NeededPillars ==
    {ret.a}
        \cup {periods[i][2] : i \in PaidAfter(ret.a)}
        \cup ({LET p == periods[Nth(PaidAfter(ret.a), k)]
                   mid_start == IF k = 1 THEN ret.a ELSE p[1]
               IN  mid_start + NearestEvenHalf(p[2] - mid_start) :
                   k \in 1..Cardinality(PaidAfter(ret.a))} \ {ret.a})

LogOf(p) == RAdd(Exponent(p, Euler), RMul(Exponent(p, Rat(10)), Norm(23026, 10000)))

\* C28: for a hazard curve with non-negative rates and retained pay dates
\* that increase strictly, every row of the table has a survival in (0, 1],
\* no greater than the survival of the row before, and an accrual_prob_term
\* in [0, 0.5], the first row and a payment on val_date + 1 day included.
C28_SurvivalIsAProbability ==
    (/\ Built
     /\ ret.status = "ok"
     /\ \A i \in DOMAIN rates : RLeq(Zero, rates[i])
     /\ \A i, j \in DOMAIN ret.value.rows :
            i < j => ret.value.rows[i].pay_date < ret.value.rows[j].pay_date) =>
        \A i \in DOMAIN ret.value.rows :
            LET s == ret.value.rows[i].survival
                prev_s == IF i = 1 THEN One ELSE ret.value.rows[i - 1].survival
            IN  /\ RLeq(LogOf(s), Zero)
                /\ RLeq(LogOf(s), LogOf(prev_s))
                /\ RLeq(LogOf(prev_s), Zero)
                /\ ret.value.rows[i].accrual_prob_term =
                       SScale(SSub(Term(Unit, prev_s), Term(Unit, s)), Half)

\* C29: a load_from_csv that fails with the empty-curve error leaves the
\* curve as it was (the pillars of a ZeroCurve, the times and rates of a
\* HazardRateCurve), and a load that succeeds replaces it entirely: every
\* pillar and every knot after the synthetic one is a row of the new file.
C29_FailedLoadKeepsSuccessfulLoadReplaces ==
    [][/\ (/\ ret'.op = "ZeroCurve.load_from_csv"
           /\ ret'.file = zero_csv /\ zero_csv' = zero_csv) =>
              IF ret'.status = "ValueError" THEN pillars' = pillars
              ELSE \A i \in DOMAIN pillars' :
                       \E j \in DOMAIN zero_csv :
                           pillars'[i] = <<zero_csv[j].date, zero_csv[j].rate>>
       /\ (/\ ret'.op = "HazardRateCurve.load_from_csv"
           /\ ret'.file = hazard_csv /\ hazard_csv' = hazard_csv) =>
              IF ret'.status = "ValueError" THEN times' = times /\ rates' = rates
              ELSE /\ Len(times') = Len(rates')
                   /\ times'[1] = Zero
                   /\ \E j \in DOMAIN hazard_csv : rates'[1] = hazard_csv[j].rate
                   /\ \A i \in 2..Len(times') :
                          \E j \in DOMAIN hazard_csv :
                              /\ times'[i] = Norm(hazard_csv[j].date - valuation_date, 365)
                              /\ rates'[i] = hazard_csv[j].rate]_vars

\* a load of the zero curve has failed on a curve loaded before, next to a
\* loaded hazard curve: the pillars are still there
C29_Witness ==
    /\ ret.op = "ZeroCurve.load_from_csv"
    /\ ret.status = "ValueError"
    /\ ret.file = zero_csv
    /\ pillars # <<>>
    /\ times # <<>>

\* the days of the first n periods, and their year fractions
RECURSIVE SumOfDays(_, _)
SumOfDays(rows, n) ==
    IF n = 0 THEN 0 ELSE SumOfDays(rows, n - 1) + (rows[n][2] - rows[n][1])

RECURSIVE SumOfYearFractions(_, _)
SumOfYearFractions(rows, n) ==
    IF n = 0 THEN Zero ELSE RAdd(SumOfYearFractions(rows, n - 1), rows[n][3])

\* C30: in every non-empty schedule generate() returns, the days of the
\* periods add up to the days from start_date to the last pay date, and the
\* year fractions to those days plus one over 365, whatever the calendar does
\* to the single pay dates.
C30_DayCountsTelescope ==
    (Generated /\ ret.value.rows # <<>>) =>
        LET rows == ret.value.rows
            span == Last(rows)[2] - sch.start_date
        IN  /\ SumOfDays(rows, Len(rows)) = span
            /\ SumOfYearFractions(rows, Len(rows)) = Norm(span + 1, 365)

\* three periods, the first two paid on dates moved off their boundaries
C30_Witness ==
    /\ Generated
    /\ Len(ret.value.rows) = 3
    /\ ret.value.rows[1][2] # Boundaries[2]
    /\ ret.value.rows[2][2] # Boundaries[3]
    /\ SumOfDays(ret.value.rows, 3) = ret.value.rows[3][2] - sch.start_date

====
